---- MODULE Spec2Model ----
(***************************************************************************)
(* OTP lifecycle of sms_app: the credential store (MongoDB "otps"          *)
(* collection), the issuer (SendOTP), the verifier (VerifyOTP), the expiry *)
(* reaper (CleanupExpiredOTPs) and the request throttle                    *)
(* (RateLimitMiddleware).                                                  *)
(*                                                                         *)
(* Time is a discrete clock `now`, counted in ticks; Minute is the number  *)
(* of ticks in one minute.  Every store operation is one atomic step that  *)
(* either takes effect or fails with an error; a handler is a sequence of  *)
(* such steps, so concurrent handlers interleave between store operations. *)
(* A handler runs for milliseconds: the clock advances between handler     *)
(* runs, not in the middle of one.                                         *)
(***************************************************************************)
EXTENDS Integers, Sequences, FiniteSets, TLC

\* ------------------------------------------------------------------ bounds
Minute == 2              \* clock resolution: ticks per minute
MaxMinutes == 6          \* the clock stops after this many minutes
MaxIssues == 2           \* records SendOTP may create
MaxCalls == 3            \* SendOTP and VerifyOTP calls that may be started
MaxRequests == 7         \* requests that may reach the throttle
MaxThrottleTicks == 4    \* ticks the clock runs while the throttle is exercised
MaxCallbacks == 1        \* callback requests that may be stored
MaxCrossWork == 4        \* handler calls and throttle checks of two phones together

MaxNow == MaxMinutes * Minute

\* ------------------------------------------------------- program constants
OTPValidity == 5 * Minute        \* time.Now().Add(5 * time.Minute)
ResendThreshold == 2 * Minute    \* timeUntilExpiry > 2*time.Minute
CleanupPeriod == 1 * Minute      \* time.NewTicker(1 * time.Minute)
RateWindow == 60                 \* window := now - 60, in seconds
RateLimit == 5                   \* len(valid) >= 5
MaxAttemptsDefault == 3          \* MaxAttempts: 3
OTPLength == 6                   \* for i := 0; i < 6; i++
RandBound == 10                  \* big.NewInt(10)
MinPhoneLen == 10                \* len(phone) < 10
ValidOTPLen == 6                 \* len(otp) != 6

Phones == {"+15551230000", "+15551230001"}
\* the phone the OTP requests of Spec are made for
ScenarioPhones == {"+15551230000"}
Callers == {"g1", "g2"}

\* ------------------------------------------------------------ generateOTP
DigitChar == <<"0", "1", "2", "3", "4", "5", "6", "7", "8", "9">>

\* a "%2d" in place of "%d": a digit padded to width 2
SprintfD_Width2(n) == <<" ", DigitChar[(n % 10) + 1]>>

RECURSIVE SprintfD(_)
\* fmt.Sprintf("%d", n) for n >= 0: the decimal digits of n
SprintfD(n) ==
    IF n < 10 THEN <<DigitChar[n + 1]>>
    ELSE SprintfD(n \div 10) \o <<DigitChar[(n % 10) + 1]>>

RECURSIVE GenLoop(_, _, _)
GenLoop(i, otp, draws) ==
    IF i < OTPLength
    THEN GenLoop(i + 1, otp \o SprintfD(draws[i + 1]), draws)
    ELSE otp

\* draws[i] is the value rand.Int(rand.Reader, big.NewInt(10)) returned in
\* iteration i
generateOTP(draws) == GenLoop(0, <<>>, draws)

\* the outcomes of the random source the model draws from
RandDraws == {[i \in 1..OTPLength |-> d] : d \in {0, RandBound - 1}}

Codes == {generateOTP(d) : d \in RandDraws}

\* a wider choice of outcomes of the random source: every digit, and every
\* mix of the lowest and the highest digit over the six positions
GenDraws ==
    {[i \in 1..OTPLength |-> d] : d \in 0..(RandBound - 1)}
        \cup [1..OTPLength -> {0, RandBound - 1}]

\* ------------------------------------------------------------------ state
VARIABLES
    now,          \* the wall clock, in ticks
    store,        \* the documents of the "otps" collection
    nextId,       \* the next ObjectID the driver hands out
    calls,        \* per goroutine: the handler it runs and its locals
    nCalls,       \* history: handler calls started so far
    reaper,       \* the cleanup goroutine: position, the sweep's list, and
                  \* whether the service's owner has let go of the service
    tickPending,  \* a tick waits in ticker.C
    requests,     \* RateLimitMiddleware's map phone -> timestamps
    admitted,     \* history: per phone, the times of the admitted requests
    reqCount,     \* history: requests that reached the throttle
    rejected,     \* history: per phone, the requests the throttle turned away
    mw,           \* per goroutine: its position in RateLimitMiddleware and its locals
    mismatches,   \* history: per record id, VerifyOTP calls that compared a wrong code
    callbacks     \* the documents of the "callbacks" collection, in insertion order

vars == <<now, store, nextId, calls, nCalls, reaper, tickPending, requests, admitted,
          reqCount, rejected, mw, mismatches, callbacks>>

otpVars == <<store, nextId, calls, nCalls, reaper, tickPending, mismatches>>
throttleVars == <<requests, admitted, reqCount, rejected, mw>>
callbackVars == <<callbacks>>

\* a goroutine outside RateLimitMiddleware: phone, now and valid are the
\* closure's locals, cur the slice read for the append
IdleMw == [pc |-> "idle", phone |-> "", now |-> 0, valid |-> <<>>, cur |-> <<>>]

\* models.OTP; id 0 is the zero ObjectID
NoCode == <<>>
NoRec == [id |-> 0, phone |-> "", code |-> NoCode, expiresAt |-> 0,
          attempts |-> 0, maxAttempts |-> 0, createdAt |-> 0, updatedAt |-> 0]

NoResp == [kind |-> "none", otp |-> NoCode, expiresAt |-> 0]

\* a goroutine's handler state: stored is SendOTP's existingOTP or VerifyOTP's
\* storedOTP, otpRecord the record SendOTP created, sentOTP the code handed to
\* smsClient.SendOTP, staleAtLookup whether the record VerifyOTP read had
\* already expired when it was read (history)
IdleCall == [pc |-> "idle", phone |-> "", reqOTP |-> NoCode, stored |-> NoRec,
             otp |-> NoCode, otpRecord |-> NoRec, sentOTP |-> NoCode,
             staleAtLookup |-> FALSE, resp |-> NoResp]

\* ------------------------------------------------ repository (mongo.go)
\* a lookup that drops Decode's error: a miss yields the zero document
FindByPhone_ZeroDoc(s, phone) ==
    IF \E r \in s : r.phone = phone
    THEN CHOOSE r \in s : r.phone = phone
    ELSE [NoRec EXCEPT !.phone = phone]

\* collection.FindOne(bson.M{"phone": phone}): NoRec stands for ErrNoDocuments
FindByPhone(s, phone) ==
    IF \E r \in s : r.phone = phone
    THEN CHOOSE r \in s : r.phone = phone
    ELSE NoRec

\* a collection without the unique index
UniqueIndexAllows_NoIndex(s, doc) == TRUE

\* the unique index on "phone" rejects a second document for the same phone
UniqueIndexAllows(s, doc) == \A r \in s : r.phone # doc.phone

\* OTPRepository.Create: stamps the timestamps, inserts, sets the ID
Create(s, otp, id, t) ==
    LET doc == [otp EXCEPT !.id = id, !.createdAt = t, !.updatedAt = t]
    IN  IF UniqueIndexAllows(s, doc)
        THEN [ok |-> TRUE, store |-> s \cup {doc}, doc |-> doc]
        ELSE [ok |-> FALSE, store |-> s, doc |-> NoRec]

\* an update that writes the timestamp and forgets the document's fields
Update_StampOnly(s, otp, t) ==
    IF \E r \in s : r.id = otp.id
    THEN LET r == CHOOSE r \in s : r.id = otp.id
         IN  [ok |-> TRUE, store |-> (s \ {r}) \cup {[r EXCEPT !.updatedAt = t]},
              doc |-> [otp EXCEPT !.updatedAt = t]]
    ELSE [ok |-> TRUE, store |-> s, doc |-> [otp EXCEPT !.updatedAt = t]]

\* OTPRepository.Update: stamps UpdatedAt on the caller's struct, then
\* UpdateOne on the _id filter with $set of the whole document; a filter that
\* matches nothing is no error, a phone the unique index holds for another
\* document is one
Update(s, otp, t) ==
    LET doc == [otp EXCEPT !.updatedAt = t]
    IN  IF \E r \in s : r.id = otp.id
        THEN LET r == CHOOSE r \in s : r.id = otp.id
             IN  IF UniqueIndexAllows(s \ {r}, doc)
                 THEN [ok |-> TRUE, store |-> (s \ {r}) \cup {doc}, doc |-> doc]
                 ELSE [ok |-> FALSE, store |-> s, doc |-> doc]
        ELSE [ok |-> TRUE, store |-> s, doc |-> doc]

\* OTPRepository.DeleteByPhone: DeleteOne on the phone filter
DeleteByPhone(s, phone) == s \ {FindByPhone(s, phone)}

\* OTPRepository.IncrementAttempts: UpdateOne with $inc attempts, $set updated_at
IncrementAttempts(s, phone, t) ==
    LET r == FindByPhone(s, phone)
    IN  IF r = NoRec THEN s
        ELSE (s \ {r}) \cup {[r EXCEPT !.attempts = @ + 1, !.updatedAt = t]}

\* a query with the comparison turned round ($gt)
FindExpired_Gt(s, t) == {r \in s : r.expiresAt > t}

\* OTPRepository.FindExpired: expires_at $lt now
FindExpired(s, t) == {r \in s : r.expiresAt < t}

\* --------------------------------------------------- service (service.go)
\* a record built with the resend threshold as its lifetime and one attempt used
NewOTPRecord_Short(phone, otp, t) ==
    [NoRec EXCEPT !.phone = phone, !.code = otp, !.expiresAt = t + ResendThreshold,
                  !.attempts = 1, !.maxAttempts = MaxAttemptsDefault]

\* the record SendOTP builds: Attempts is left at its zero value
NewOTPRecord(phone, otp, t) ==
    [NoRec EXCEPT !.phone = phone, !.code = otp, !.expiresAt = t + OTPValidity,
                  !.maxAttempts = MaxAttemptsDefault]

\* a cooldown test against the whole lifetime: no record is ever in cooldown
InCooldown_Lifetime(rec, t) == rec.expiresAt - t > OTPValidity

\* a cooldown test that still holds with exactly the threshold left
InCooldown_Inclusive(rec, t) == rec.expiresAt - t >= ResendThreshold

\* time.Until(existingOTP.ExpiresAt) > 2*time.Minute
InCooldown(rec, t) == rec.expiresAt - t > ResendThreshold

\* an expiry test that never fires
IsExpired_Never(rec, t) == FALSE

\* an expiry test that already fires at the boundary (!Before in place of After)
IsExpired_AtBoundary(rec, t) == t >= rec.expiresAt

\* time.Now().After(storedOTP.ExpiresAt)
IsExpired(rec, t) == t > rec.expiresAt

\* a ceiling test that already turns the last allowed attempt away
AttemptsExhausted_Early(rec) == rec.attempts + 1 >= rec.maxAttempts

\* storedOTP.Attempts >= storedOTP.MaxAttempts
AttemptsExhausted(rec) == rec.attempts >= rec.maxAttempts

\* the handler returns resp and its locals die; the goroutine stays at "done",
\* showing what it returned, until it serves the next request
Finish(call, kind, otp, expiresAt) ==
    [IdleCall EXCEPT !.pc = "done", !.phone = call.phone,
                     !.sentOTP = call.sentOTP,
                     !.staleAtLookup = call.staleAtLookup,
                     !.resp = [kind |-> kind, otp |-> otp, expiresAt |-> expiresAt]]

Free(call) == call.pc \in {"idle", "done", "replied"}

SendPhases == {"find", "cooldown", "create"}

\* the collection outlives the process: at construction it is empty or holds
\* a record an earlier SendOTP left, issued at time 0, on which some wrong
\* codes may already have been tried
LeftRecords ==
    {[NewOTPRecord(p, code, 0) EXCEPT !.id = 1, !.attempts = a] :
        p \in ScenarioPhones, code \in Codes, a \in 0..MaxAttemptsDefault}

Init ==
    /\ now = 0
    /\ \E left \in {{}} \cup {{r} : r \in LeftRecords} :
         /\ store = left
         /\ nextId = 1 + Cardinality(left)
         /\ mismatches = [i \in 1..(MaxIssues + 1) |->
                             IF \E r \in left : r.id = i
                             THEN (CHOOSE r \in left : r.id = i).attempts ELSE 0]
    /\ calls = [c \in Callers |-> IdleCall]
    /\ nCalls = 0
    /\ reaper = [pc |-> "wait", expired |-> {}, released |-> FALSE]
    /\ tickPending = FALSE
    /\ requests = [p \in {} |-> <<>>]
    /\ admitted = [p \in Phones |-> <<>>]
    /\ reqCount = 0
    /\ rejected = [p \in Phones |-> 0]
    /\ mw = [c \in Callers |-> IdleMw]
    /\ callbacks = <<>>

\* ---------------------------------------------------------------- SendOTP
\* a request enters SendOTP
StartSendOTP(c, p) ==
    /\ Free(calls[c])
    /\ nCalls < MaxCalls
    /\ nCalls' = nCalls + 1
    /\ nextId + Cardinality({d \in Callers : calls[d].pc \in SendPhases}) <= MaxIssues + 1
    /\ calls' = [calls EXCEPT ![c] = [IdleCall EXCEPT !.pc = "find", !.phone = p]]
    /\ UNCHANGED <<now, store, nextId, reaper, tickPending, mismatches,
                   throttleVars, callbackVars>>

\* existingOTP, err := FindByPhone; the branch is taken when err == nil && existingOTP != nil
SendFind(c) ==
    /\ calls[c].pc = "find"
    /\ \E ok \in BOOLEAN :
         LET r == IF ok THEN FindByPhone(store, calls[c].phone) ELSE NoRec
         IN  calls' = [calls EXCEPT ![c] =
                IF r # NoRec
                THEN [@ EXCEPT !.pc = "cooldown", !.stored = r]
                ELSE [@ EXCEPT !.pc = "create"]]
    /\ UNCHANGED <<nCalls, now, store, nextId, reaper, tickPending, mismatches,
                   throttleVars, callbackVars>>

\* the cooldown test, then either the "already sent" return or the delete
\* that makes room for the resend (its error is discarded)
SendCooldown(c) ==
    /\ calls[c].pc = "cooldown"
    /\ IF InCooldown(calls[c].stored, now)
       THEN /\ calls' = [calls EXCEPT ![c] =
                    Finish(@, "already_sent", NoCode, calls[c].stored.expiresAt)]
            /\ store' = store
       ELSE /\ \E ok \in BOOLEAN :
                 store' = IF ok THEN DeleteByPhone(store, calls[c].phone) ELSE store
            /\ calls' = [calls EXCEPT ![c].pc = "create"]
    /\ UNCHANGED <<nCalls, now, nextId, reaper, tickPending, mismatches,
                   throttleVars, callbackVars>>

\* generateOTP, the expiry, the record and repo.OTP().Create
SendCreateFrom(c, D) ==
    /\ calls[c].pc = "create"
    /\ \E genOk \in BOOLEAN, draws \in D, ok \in BOOLEAN :
         LET otp == generateOTP(draws)
             rec == NewOTPRecord(calls[c].phone, otp, now)
             res == IF ok THEN Create(store, rec, nextId, now)
                    ELSE [ok |-> FALSE, store |-> store, doc |-> NoRec]
         IN  IF ~genOk
             THEN /\ calls' = [calls EXCEPT ![c] = Finish(@, "internal_error", NoCode, 0)]
                  /\ UNCHANGED <<store, nextId>>
             ELSE IF res.ok
             THEN /\ store' = res.store
                  /\ nextId' = nextId + 1
                  /\ calls' = [calls EXCEPT ![c] =
                         [@ EXCEPT !.pc = "dispatch", !.otp = otp, !.otpRecord = res.doc]]
             ELSE /\ calls' = [calls EXCEPT ![c] = Finish(@, "internal_error", NoCode, 0)]
                  /\ UNCHANGED <<store, nextId>>
    /\ UNCHANGED <<nCalls, now, reaper, tickPending, mismatches, throttleVars, callbackVars>>

SendCreate(c) == SendCreateFrom(c, RandDraws)

\* a dispatch that is tried again when it fails
SendDispatch_Retry(c) ==
    /\ calls[c].pc = "dispatch"
    /\ \E ok \in BOOLEAN :
         calls' = [calls EXCEPT ![c] =
            IF ok
            THEN Finish([@ EXCEPT !.sentOTP = calls[c].otp], "success",
                        calls[c].otp, calls[c].otpRecord.expiresAt)
            ELSE [@ EXCEPT !.pc = IF calls[c].sentOTP = NoCode THEN "dispatch"
                                  ELSE "rollback",
                           !.sentOTP = calls[c].otp]]
    /\ UNCHANGED <<nCalls, now, store, nextId, reaper, tickPending, mismatches,
                   throttleVars, callbackVars>>

\* smsClient.SendOTP(ctx, phone, otp) and the success return
SendDispatch(c) ==
    /\ calls[c].pc = "dispatch"
    /\ \E ok \in BOOLEAN :
         calls' = [calls EXCEPT ![c] =
            IF ok
            THEN Finish([@ EXCEPT !.sentOTP = calls[c].otp], "success",
                        calls[c].otp, calls[c].otpRecord.expiresAt)
            ELSE [@ EXCEPT !.pc = "rollback", !.sentOTP = calls[c].otp]]
    /\ UNCHANGED <<nCalls, now, store, nextId, reaper, tickPending, mismatches,
                   throttleVars, callbackVars>>

\* the clean-up after a failed dispatch (its error is discarded)
SendRollback(c) ==
    /\ calls[c].pc = "rollback"
    /\ \E ok \in BOOLEAN :
         store' = IF ok THEN DeleteByPhone(store, calls[c].phone) ELSE store
    /\ calls' = [calls EXCEPT ![c] = Finish(@, "service_unavailable", NoCode, 0)]
    /\ UNCHANGED <<nCalls, now, nextId, reaper, tickPending, mismatches,
                   throttleVars, callbackVars>>

\* -------------------------------------------------------------- VerifyOTP
\* a request enters VerifyOTP with a submitted code
StartVerifyOTP(c, p, code) ==
    /\ Free(calls[c])
    /\ nCalls < MaxCalls
    /\ nCalls' = nCalls + 1
    /\ calls' = [calls EXCEPT ![c] = [IdleCall EXCEPT !.pc = "vfind", !.phone = p,
                                                      !.reqOTP = code]]
    /\ UNCHANGED <<now, store, nextId, reaper, tickPending, mismatches,
                   throttleVars, callbackVars>>

\* storedOTP, err := FindByPhone; err != nil || storedOTP == nil returns
\* "not found or expired" with a nil error
VerifyFind(c) ==
    /\ calls[c].pc = "vfind"
    /\ \E ok \in BOOLEAN :
         LET r == IF ok THEN FindByPhone(store, calls[c].phone) ELSE NoRec
         IN  calls' = [calls EXCEPT ![c] =
                IF r = NoRec
                THEN Finish(@, "not_found", NoCode, 0)
                ELSE [@ EXCEPT !.pc = "vcheck", !.stored = r,
                               !.staleAtLookup = (r.expiresAt < now)]]
    /\ UNCHANGED <<nCalls, now, store, nextId, reaper, tickPending, mismatches,
                   throttleVars, callbackVars>>

\* the expiry test (with its delete), the attempt ceiling, then
\* IncrementAttempts, whose error is logged and dropped
VerifyCheck(c) ==
    /\ calls[c].pc = "vcheck"
    /\ IF IsExpired(calls[c].stored, now)
       THEN /\ \E ok \in BOOLEAN :
                 store' = IF ok THEN DeleteByPhone(store, calls[c].phone) ELSE store
            /\ calls' = [calls EXCEPT ![c] = Finish(@, "expired", NoCode, 0)]
       ELSE IF AttemptsExhausted(calls[c].stored)
       THEN /\ calls' = [calls EXCEPT ![c] = Finish(@, "max_attempts", NoCode, 0)]
            /\ store' = store
       ELSE /\ \E ok \in BOOLEAN :
                 store' = IF ok THEN IncrementAttempts(store, calls[c].phone, now)
                          ELSE store
            /\ calls' = [calls EXCEPT ![c].pc = "vcompare"]
    /\ UNCHANGED <<nCalls, now, nextId, reaper, tickPending, mismatches,
                   throttleVars, callbackVars>>

\* storedOTP.Code == req.OTP: delete (error discarded) and accept, or reject
VerifyCompare(c) ==
    /\ calls[c].pc = "vcompare"
    /\ IF calls[c].stored.code = calls[c].reqOTP
       THEN /\ \E ok \in BOOLEAN :
                 store' = IF ok THEN DeleteByPhone(store, calls[c].phone) ELSE store
            /\ calls' = [calls EXCEPT ![c] = Finish(@, "verified", NoCode, 0)]
            /\ UNCHANGED mismatches
       ELSE /\ calls' = [calls EXCEPT ![c] = Finish(@, "invalid", NoCode, 0)]
            /\ mismatches' = [mismatches EXCEPT ![calls[c].stored.id] =
                                  IF @ < MaxAttemptsDefault THEN @ + 1 ELSE @]
            /\ UNCHANGED store
    /\ UNCHANGED <<nCalls, now, nextId, reaper, tickPending, throttleVars, callbackVars>>

\* ---------------------------------------------------------- expiry reaper
\* startCleanupRoutine receives a tick; CleanupExpiredOTPs queries the
\* expired records (a failed query ends the sweep)
ReaperQueryOn(oks) ==
    /\ reaper.pc = "wait"
    /\ tickPending
    /\ tickPending' = FALSE
    /\ \E ok \in oks :
         LET expired == IF ok THEN {r.phone : r \in FindExpired(store, now)} ELSE {}
         IN  reaper' = [reaper EXCEPT !.pc = IF expired = {} THEN "wait" ELSE "sweep",
                                      !.expired = expired]
    /\ UNCHANGED <<nCalls, now, store, nextId, calls, mismatches, throttleVars, callbackVars>>

\* the store may fail the query
ReaperQuery == ReaperQueryOn(BOOLEAN)

\* a loop that returns at the first delete that fails
ReaperDeleteOn_Abort(oks) ==
    /\ reaper.pc = "sweep"
    /\ \E p \in reaper.expired, ok \in oks :
         /\ store' = IF ok THEN DeleteByPhone(store, p) ELSE store
         /\ reaper' = IF ok
                       THEN [reaper EXCEPT
                                !.pc = IF reaper.expired = {p} THEN "wait" ELSE "sweep",
                                !.expired = reaper.expired \ {p}]
                       ELSE [reaper EXCEPT !.pc = "wait", !.expired = {}]
    /\ UNCHANGED <<nCalls, now, nextId, calls, tickPending, mismatches,
                   throttleVars, callbackVars>>

\* one iteration of the sweep's loop: DeleteByPhone, a failure is logged
ReaperDeleteOn(oks) ==
    /\ reaper.pc = "sweep"
    /\ \E p \in reaper.expired, ok \in oks :
         /\ store' = IF ok THEN DeleteByPhone(store, p) ELSE store
         /\ reaper' = [reaper EXCEPT
                          !.pc = IF reaper.expired = {p} THEN "wait" ELSE "sweep",
                          !.expired = reaper.expired \ {p}]
    /\ UNCHANGED <<nCalls, now, nextId, calls, tickPending, mismatches,
                   throttleVars, callbackVars>>

\* the store may fail the delete
ReaperDelete == ReaperDeleteOn(BOOLEAN)

\* the owner of the service is done with it and lets go of the
\* *SMSServiceImpl that NewSMSService returned.  The type has no Stop or
\* Close, and startCleanupRoutine takes no context and no done channel: the
\* goroutine started at construction is out of the owner's reach
Release ==
    /\ ~reaper.released
    /\ reaper' = [reaper EXCEPT !.released = TRUE]
    /\ UNCHANGED <<nCalls, now, store, nextId, calls, tickPending, mismatches,
                   throttleVars, callbackVars>>

\* -------------------------------------------- the repository used directly
\* a client of the repository builds an OTP as SendOTP does and calls Create;
\* it keeps the struct, which Create has stamped and given its ID
RepoCreate(c, p, code) ==
    /\ calls[c].pc = "idle"
    /\ nextId <= MaxIssues + 1
    /\ LET res == Create(store, NewOTPRecord(p, code, now), nextId, now)
       IN  IF res.ok
           THEN /\ store' = res.store
                /\ nextId' = nextId + 1
                /\ calls' = [calls EXCEPT ![c] =
                       [IdleCall EXCEPT !.pc = "created", !.phone = p,
                                        !.otpRecord = res.doc, !.stored = res.doc]]
           ELSE /\ calls' = [calls EXCEPT ![c] =
                       Finish([IdleCall EXCEPT !.phone = p], "internal_error", NoCode, 0)]
                /\ UNCHANGED <<store, nextId>>
    /\ UNCHANGED <<nCalls, now, reaper, tickPending, mismatches, throttleVars, callbackVars>>

\* the client changes Code and Attempts of the struct it holds and calls
\* Update; stored keeps the struct as Create left it
RepoUpdate(c, code, attempts) ==
    /\ calls[c].pc = "created"
    /\ LET res == Update(store, [calls[c].otpRecord EXCEPT !.code = code,
                                                          !.attempts = attempts], now)
       IN  /\ store' = res.store
           /\ calls' = [calls EXCEPT ![c] =
                  [@ EXCEPT !.pc = IF res.ok THEN "updated" ELSE "done",
                            !.otpRecord = res.doc]]
    /\ UNCHANGED <<nCalls, now, nextId, reaper, tickPending, mismatches,
                   throttleVars, callbackVars>>

\* time passes between the client's calls
RepoTick ==
    /\ now < MaxThrottleTicks
    /\ now' = now + 1
    /\ UNCHANGED <<otpVars, throttleVars, callbackVars>>

\* MongoDB's TTL monitor acting on the expires_at index (expireAfterSeconds 0)
TTLExpire ==
    /\ \E r \in store :
         /\ r.expiresAt < now
         /\ store' = store \ {r}
    /\ UNCHANGED <<nCalls, now, nextId, calls, reaper, tickPending, mismatches,
                   throttleVars, callbackVars>>

\* ------------------------------------------------------------------ clock
\* the ticker puts a tick in its channel every CleanupPeriod; a tick is
\* dropped while one is still waiting there
TickerFires(from, to) == \E k \in (from + 1)..to : k % CleanupPeriod = 0

\* d ticks pass while no handler and no sweep is running
Advance(d) ==
    /\ now + d <= MaxNow
    /\ \A c \in Callers : Free(calls[c])
    /\ reaper.pc = "wait"
    /\ now' = now + d
    /\ tickPending' = (tickPending \/ TickerFires(now, now + d))
    /\ UNCHANGED <<nCalls, store, nextId, calls, reaper, mismatches, throttleVars, callbackVars>>

\* a minute passes
Tick == Advance(Minute)

\* the shortest time the clock resolves passes
TickStep ==
    /\ now < MaxThrottleTicks
    /\ Advance(1)

\* --------------------------------------------------------------- throttle
\* the timestamps the middleware keeps: for _, ts := range timestamps { if ts > window }
KeepRecent(timestamps, window) == SelectSeq(timestamps, LAMBDA ts : ts > window)

\* a limit test that lets one request too many through
OverLimit_OffByOne(valid) == Len(valid) > RateLimit

\* len(valid) >= 5
OverLimit(valid) == Len(valid) >= RateLimit

\* requests[phone] = v, creating the key when absent
MapPut(m, k, v) == [q \in DOMAIN m \cup {k} |-> IF q = k THEN v ELSE m[q]]

\* requests[phone], nil when the key is absent
MapGet(m, k) == IF k \in DOMAIN m THEN m[k] ELSE <<>>

\* time.Now().Unix(): the clock in whole seconds
Unix(t) == t * (60 \div Minute)

\* one request through RateLimitMiddleware, as a whole; p is the phone of the
\* request, "" when it carries none
RateLimitMiddleware(p) ==
    /\ reqCount < MaxRequests
    /\ reqCount' = reqCount + 1
    /\ IF p = ""
       THEN UNCHANGED <<requests, admitted, rejected>>
       ELSE LET unixNow == Unix(now)
                window == unixNow - RateWindow
                exists == p \in DOMAIN requests
                valid  == KeepRecent(MapGet(requests, p), window)
                pruned == IF exists THEN MapPut(requests, p, valid) ELSE requests
            IN  IF exists /\ OverLimit(valid)
                THEN /\ requests' = pruned
                     /\ rejected' = [rejected EXCEPT ![p] = @ + 1]
                     /\ UNCHANGED admitted
                ELSE /\ requests' = MapPut(pruned, p, Append(MapGet(pruned, p), unixNow))
                     /\ admitted' = [admitted EXCEPT ![p] = Append(@, unixNow)]
                     /\ UNCHANGED rejected
    /\ UNCHANGED <<now, otpVars, mw, callbackVars>>

\* RateLimitMiddleware run by concurrent requests.  gin runs the closure on
\* the goroutine of each request and the closure uses the map without a
\* lock: the steps below are its map reads and writes, which other
\* goroutines' steps may separate.
\* phone, now, window; timestamps, exists := requests[phone]; the pruning loop
MwEnter(c, p) ==
    /\ mw[c].pc = "idle"
    /\ reqCount < MaxRequests
    /\ reqCount' = reqCount + 1
    /\ LET unixNow == Unix(now)
           window == unixNow - RateWindow
       IN  mw' = [mw EXCEPT ![c] =
                IF p \in DOMAIN requests
                THEN [IdleMw EXCEPT !.pc = "store", !.phone = p, !.now = unixNow,
                                    !.valid = KeepRecent(requests[p], window)]
                ELSE [IdleMw EXCEPT !.pc = "append", !.phone = p, !.now = unixNow]]
    /\ UNCHANGED <<now, otpVars, requests, admitted, rejected, callbackVars>>

\* requests[phone] = valid, then the limit test and its 429
MwStore(c) ==
    /\ mw[c].pc = "store"
    /\ requests' = MapPut(requests, mw[c].phone, mw[c].valid)
    /\ IF OverLimit(mw[c].valid)
       THEN /\ rejected' = [rejected EXCEPT ![mw[c].phone] = @ + 1]
            /\ mw' = [mw EXCEPT ![c] = IdleMw]
       ELSE /\ mw' = [mw EXCEPT ![c].pc = "append"]
            /\ UNCHANGED rejected
    /\ UNCHANGED <<now, otpVars, admitted, reqCount, callbackVars>>

\* requests[phone] = append(requests[phone], now): the map read
MwAppendRead(c) ==
    /\ mw[c].pc = "append"
    /\ mw' = [mw EXCEPT ![c] = [@ EXCEPT !.pc = "write",
                                        !.cur = MapGet(requests, mw[c].phone)]]
    /\ UNCHANGED <<now, otpVars, requests, admitted, reqCount, rejected, callbackVars>>

\* requests[phone] = append(requests[phone], now): the map write, then c.Next()
MwAppendWrite(c) ==
    /\ mw[c].pc = "write"
    /\ requests' = MapPut(requests, mw[c].phone, Append(mw[c].cur, mw[c].now))
    /\ admitted' = [admitted EXCEPT ![mw[c].phone] = Append(@, mw[c].now)]
    /\ mw' = [mw EXCEPT ![c] = IdleMw]
    /\ UNCHANGED <<now, otpVars, reqCount, rejected, callbackVars>>

\* two goroutines inside the closure use the map at once, for the same key
\* or for different ones: the runtime may detect it ("fatal error:
\* concurrent map writes") and end the process, and the map, which lives in
\* the process, is gone with it
MwFatal ==
    /\ \E c, d \in Callers :
          c # d /\ mw[c].pc \in {"store", "append", "write"}
                /\ mw[d].pc \in {"store", "append", "write"}
    /\ mw' = [c \in Callers |-> [IdleMw EXCEPT !.pc = "fatal"]]
    /\ requests' = [p \in {} |-> <<>>]
    /\ UNCHANGED <<now, otpVars, admitted, reqCount, rejected, callbackVars>>

\* ------------------------------------------------------- send-otp route
\* sms.POST("/send-otp", h.endpoints.SendOTP): the handlers gin runs for the
\* route, in order.  main installs gin.Default() and the CORS handler on the
\* engine, neither of which turns a request away; RateLimitMiddleware is
\* installed nowhere.
SendOTPRoute == <<"SendOTP">>

\* a POST /sms/send-otp whose body binds and whose phone passes
\* isValidPhoneNumber runs through the route: every handler before the
\* endpoint lets it pass, and the endpoint calls SendOTP
RouteSendOTP(c, p) ==
    /\ calls[c].pc \in {"idle", "replied"}
    /\ reqCount < MaxRequests
    /\ reqCount' = reqCount + 1
    /\ nextId + Cardinality({d \in Callers : calls[d].pc \in SendPhases}) <= MaxIssues + 1
    /\ SendOTPRoute[Len(SendOTPRoute)] = "SendOTP"
    /\ \A i \in 1..(Len(SendOTPRoute) - 1) : SendOTPRoute[i] \in {"Logger", "Recovery", "CORS"}
    /\ admitted' = [admitted EXCEPT ![p] = Append(@, Unix(now))]
    /\ calls' = [calls EXCEPT ![c] = [IdleCall EXCEPT !.pc = "find", !.phone = p]]
    /\ UNCHANGED <<now, store, nextId, nCalls, reaper, tickPending, mismatches,
                   requests, rejected, mw, callbackVars>>

\* an endpoint that writes SendOTP's result as it got it
SendOTPReply_Echo(resp) == resp

\* makeSendOTPEndpoint once SendOTP has returned: an error is written as the
\* AppError it is; a result with Success set has its OTP field blanked
SendOTPReply(resp) ==
    IF resp.kind \in {"internal_error", "service_unavailable"}
    THEN resp
    ELSE IF resp.kind = "success" THEN [resp EXCEPT !.otp = NoCode] ELSE resp

\* the endpoint writes the HTTP response (c.JSON) and the request is over
RouteReply(c) ==
    /\ calls[c].pc = "done"
    /\ calls' = [calls EXCEPT ![c] = [@ EXCEPT !.pc = "replied",
                                                !.resp = SendOTPReply(@)]]
    /\ UNCHANGED <<now, store, nextId, nCalls, reaper, tickPending, mismatches,
                   throttleVars, callbackVars>>

\* ---------------------------------------------------- request validation
\* the characters the request bodies are written with
Chars == {" ", "+", "/", ":", "a"} \cup {DigitChar[i] : i \in 1..10}

\* the byte value of a character, as the comparisons of the validators see it
Ord ==
    [ch \in Chars |->
        CASE ch = " " -> 32
          [] ch = "+" -> 43
          [] ch = "/" -> 47
          [] ch = ":" -> 58
          [] ch = "a" -> 97
          [] OTHER -> 47 + (CHOOSE i \in 1..10 : DigitChar[i] = ch)]

\* isValidPhoneNumber: the length and the leading '+', then the loop over the
\* characters after it
isValidPhoneNumber(phone) ==
    IF Len(phone) < MinPhoneLen \/ phone[1] # "+"
    THEN FALSE
    ELSE \A i \in 2..Len(phone) :
             ~(Ord[phone[i]] < Ord["0"] \/ Ord[phone[i]] > Ord["9"])

\* a length test that lets shorter codes through
isValidOTP_AtMost(otp) ==
    IF Len(otp) > ValidOTPLen
    THEN FALSE
    ELSE \A i \in 1..Len(otp) : ~(Ord[otp[i]] < Ord["0"] \/ Ord[otp[i]] > Ord["9"])

\* isValidOTP: the length, then the loop over the characters
isValidOTP(otp) ==
    IF Len(otp) # ValidOTPLen
    THEN FALSE
    ELSE \A i \in 1..Len(otp) : ~(Ord[otp[i]] < Ord["0"] \/ Ord[otp[i]] > Ord["9"])

\* binding:"required" on a string field: ShouldBindJSON fails on an absent or
\* empty value
BindsRequired(field) == field # <<>>

\* the characters of the phone numbers the requests are made of
PhoneChars ==
    [p \in Phones |->
        CASE p = "+15551230000" -> <<"+", "1", "5", "5", "5", "1", "2", "3", "0", "0", "0", "0">>
          [] p = "+15551230001" -> <<"+", "1", "5", "5", "5", "1", "2", "3", "0", "0", "0", "1">>]

\* the phone number a string of characters spells
PhoneNamed(chars) == CHOOSE p \in DOMAIN PhoneChars : PhoneChars[p] = chars

\* the first n characters of x, the i-th replaced by ch (i = 0: none replaced)
Garbled(x, n, i, ch) == [k \in 1..n |-> IF k = i THEN ch ELSE x[k]]

\* the phone_number values of the requests: a phone number whole or cut
\* short, as it is or with one character replaced
PhoneInputs ==
    {Garbled(PhoneChars[p], n, i, ch) :
        p \in ScenarioPhones, n \in {0, 1, MinPhoneLen - 1, MinPhoneLen + 2},
        i \in {0, 1, 2, MinPhoneLen}, ch \in {"a", "/", ":", " "}}

\* the otp values of the requests: a code whole, cut short or with a digit
\* more, as it is or with one character replaced
OTPInputs ==
    {Garbled(code \o <<"7">>, n, i, ch) :
        code \in Codes, n \in {0, ValidOTPLen - 1, ValidOTPLen, ValidOTPLen + 1},
        i \in {0, 1, ValidOTPLen}, ch \in {"a", "/", ":"}}

\* the bodies of the verify-otp requests: every phone_number with a code as
\* SendOTP issues them, and every otp with a phone number as it should be
VerifyInputs ==
    {[phone |-> ph, otp |-> generateOTP([i \in 1..OTPLength |-> 0])] : ph \in PhoneInputs}
      \cup {[phone |-> PhoneChars[p], otp |-> otp] : p \in ScenarioPhones, otp \in OTPInputs}
      \cup {[phone |-> <<"1", "5", "5", "5">>, otp |-> <<"a">>]}

\* common.NewValidationError written as the response: the request is over
\* and SendOTP or VerifyOTP was never called
RejectRequest(c) ==
    /\ calls' = [calls EXCEPT ![c] =
           [IdleCall EXCEPT !.pc = "replied",
                            !.resp = [NoResp EXCEPT !.kind = "validation_error"]]]
    /\ UNCHANGED <<now, store, nextId, nCalls, reaper, tickPending, mismatches,
                   throttleVars, callbackVars>>

\* makeSendOTPEndpoint up to the call of SendOTP
EndpointSendOTP(c, phone) ==
    /\ calls[c].pc \in {"idle", "replied"}
    /\ IF ~BindsRequired(phone) THEN RejectRequest(c)
       ELSE IF ~isValidPhoneNumber(phone) THEN RejectRequest(c)
       ELSE StartSendOTP(c, PhoneNamed(phone))

\* makeVerifyOTPEndpoint up to the call of VerifyOTP
EndpointVerifyOTP(c, phone, otp) ==
    /\ calls[c].pc \in {"idle", "replied"}
    /\ IF ~(BindsRequired(phone) /\ BindsRequired(otp)) THEN RejectRequest(c)
       ELSE IF ~isValidPhoneNumber(phone) THEN RejectRequest(c)
       ELSE IF ~isValidOTP(otp) THEN RejectRequest(c)
       ELSE StartVerifyOTP(c, PhoneNamed(phone), otp)

\* ------------------------------------------------------ callback requests
\* the status constants of models.go
StatusPending == "pending"
StatusSent == "sent"
StatusDelivered == "delivered"
StatusFailed == "failed"
StatusRequested == "requested"
StatusInProgress == "in_progress"
StatusCompleted == "completed"
StatusCancelled == "cancelled"

\* the strings a caller of UpdateCallbackStatus may pass as status
StatusValues ==
    {StatusPending, StatusSent, StatusDelivered, StatusFailed,
     StatusRequested, StatusInProgress, StatusCompleted, StatusCancelled}

\* CallbackRepository.Create: the three timestamps, InsertOne, the new id
\* (the position in the collection stands for the ObjectID)
CreateCallback(cbs, callback, t) ==
    Append(cbs, [callback EXCEPT !.id = Len(cbs) + 1, !.createdAt = t,
                                 !.updatedAt = t, !.requestedAt = t])

\* CallbackRepository.UpdateStatus: UpdateOne by _id with $set of status and
\* updated_at; a filter that matches no document changes nothing
UpdateStatus(cbs, id, status, t) ==
    [i \in 1..Len(cbs) |->
        IF cbs[i].id = id THEN [cbs[i] EXCEPT !.status = status, !.updatedAt = t]
        ELSE cbs[i]]

\* CallbackServiceImpl.RequestCallback: the record with StatusRequested and
\* Create, whose failure ends the call with nothing stored
RequestCallback(p) ==
    /\ Len(callbacks) < MaxCallbacks
    /\ \E ok \in BOOLEAN :
         LET callback == [id |-> 0, phone |-> p, status |-> StatusRequested,
                          requestedAt |-> 0, createdAt |-> 0, updatedAt |-> 0]
         IN  callbacks' = IF ok THEN CreateCallback(callbacks, callback, now)
                          ELSE callbacks
    /\ UNCHANGED <<now, otpVars, throttleVars>>

\* CallbackServiceImpl.UpdateCallbackStatus(ctx, requestID, status): the
\* status string goes to UpdateStatus as it came
UpdateCallbackStatus(requestID, status) ==
    /\ \E ok \in BOOLEAN :
         callbacks' = IF ok THEN UpdateStatus(callbacks, requestID, status, now)
                      ELSE callbacks
    /\ UNCHANGED <<now, otpVars, throttleVars>>

\* ---------------------------------------------------------- specifications
Next ==
    \/ \E c \in Callers, p \in ScenarioPhones : StartSendOTP(c, p)
    \/ \E c \in Callers : SendFind(c)
    \/ \E c \in Callers : SendCooldown(c)
    \/ \E c \in Callers : SendCreate(c)
    \/ \E c \in Callers : SendDispatch(c)
    \/ \E c \in Callers : SendRollback(c)
    \/ \E c \in Callers, p \in ScenarioPhones, code \in Codes : StartVerifyOTP(c, p, code)
    \/ \E c \in Callers : VerifyFind(c)
    \/ \E c \in Callers : VerifyCheck(c)
    \/ \E c \in Callers : VerifyCompare(c)
    \/ ReaperQuery
    \/ ReaperDelete
    \/ TTLExpire
    \/ Tick

Spec == Init /\ [][Next]_vars

\* the throttle on its own: requests arrive one after the other while time passes
NextThrottle ==
    \/ \E p \in Phones \cup {""} : RateLimitMiddleware(p)
    \/ TickStep

\* the middleware keeps its map in memory and never touches the collection
InitThrottle == Init /\ store = {}

SpecThrottle == InitThrottle /\ [][NextThrottle]_vars

\* the throttle under concurrent requests for one phone
NextThrottleRace ==
    \/ \E c \in Callers, p \in ScenarioPhones : MwEnter(c, p)
    \/ \E c \in Callers : MwStore(c)
    \/ \E c \in Callers : MwAppendRead(c)
    \/ \E c \in Callers : MwAppendWrite(c)
    \/ MwFatal
    \/ TickStep

SpecThrottleRace == InitThrottle /\ [][NextThrottleRace]_vars

\* requests for two phones: each goroutine is in the throttle or in a
\* handler, and the two goroutines interleave freely
NextCross ==
    \/ \E c \in Callers, p \in Phones :
            mw[c].pc = "idle" /\ nCalls + reqCount < MaxCrossWork /\ StartSendOTP(c, p)
    \/ \E c \in Callers : SendFind(c)
    \/ \E c \in Callers : SendCooldown(c)
    \/ \E c \in Callers : SendCreate(c)
    \/ \E c \in Callers : SendDispatch(c)
    \/ \E c \in Callers : SendRollback(c)
    \/ \E c \in Callers, p \in Phones, code \in Codes :
            /\ mw[c].pc = "idle" /\ nCalls + reqCount < MaxCrossWork
            /\ StartVerifyOTP(c, p, code)
    \/ \E c \in Callers : VerifyFind(c)
    \/ \E c \in Callers : VerifyCheck(c)
    \/ \E c \in Callers : VerifyCompare(c)
    \/ \E c \in Callers, p \in Phones :
            Free(calls[c]) /\ nCalls + reqCount < MaxCrossWork /\ MwEnter(c, p)
    \/ \E c \in Callers : MwStore(c)
    \/ \E c \in Callers : MwAppendRead(c)
    \/ \E c \in Callers : MwAppendWrite(c)
    \/ MwFatal

SpecCross == InitThrottle /\ [][NextCross]_vars

\* the two endpoints, fed well-formed and malformed request bodies; a reply
\* to a VerifyOTP result passes through SendOTPReply unchanged, as
\* makeVerifyOTPEndpoint writes it
NextEndpoint ==
    \/ \E c \in Callers, phone \in PhoneInputs : EndpointSendOTP(c, phone)
    \/ \E c \in Callers, req \in VerifyInputs : EndpointVerifyOTP(c, req.phone, req.otp)
    \/ \E c \in Callers : SendFind(c)
    \/ \E c \in Callers : SendCooldown(c)
    \/ \E c \in Callers : SendCreate(c)
    \/ \E c \in Callers : SendDispatch(c)
    \/ \E c \in Callers : SendRollback(c)
    \/ \E c \in Callers : VerifyFind(c)
    \/ \E c \in Callers : VerifyCheck(c)
    \/ \E c \in Callers : VerifyCompare(c)
    \/ \E c \in Callers : RouteReply(c)

InitEndpoint == Init /\ store = {}

SpecEndpoint == InitEndpoint /\ [][NextEndpoint]_vars

\* the send-otp route: requests for one phone, time passing in between
NextRoute ==
    \/ \E c \in Callers, p \in ScenarioPhones : RouteSendOTP(c, p)
    \/ \E c \in Callers : SendFind(c)
    \/ \E c \in Callers : SendCooldown(c)
    \/ \E c \in Callers : SendCreate(c)
    \/ \E c \in Callers : SendDispatch(c)
    \/ \E c \in Callers : SendRollback(c)
    \/ \E c \in Callers : RouteReply(c)
    \/ TickStep

\* SendOTP alone, its codes drawn from GenDraws
NextGen ==
    \/ \E c \in Callers, p \in ScenarioPhones : StartSendOTP(c, p)
    \/ \E c \in Callers : SendFind(c)
    \/ \E c \in Callers : SendCooldown(c)
    \/ \E c \in Callers : SendCreateFrom(c, GenDraws)
    \/ \E c \in Callers : SendDispatch(c)
    \/ \E c \in Callers : SendRollback(c)

InitGen == Init /\ store = {}

SpecGen == InitGen /\ [][NextGen]_vars

\* the callback service beside the clock, the reaper and the TTL monitor
NextCallback ==
    \/ \E p \in Phones : RequestCallback(p)
    \/ \E id \in 1..MaxCallbacks, status \in StatusValues :
            UpdateCallbackStatus(id, status)
    \/ Tick
    \/ ReaperQuery
    \/ ReaperDelete
    \/ TTLExpire

SpecCallback == Init /\ [][NextCallback]_vars

\* the reaper on a collection that holds a record for each of two phones,
\* both issued at time 0 by an earlier process
LeftPairs ==
    {{[NewOTPRecord("+15551230000", c1, 0) EXCEPT !.id = 1, !.attempts = a1],
      [NewOTPRecord("+15551230001", c2, 0) EXCEPT !.id = 2, !.attempts = a2]} :
        c1 \in Codes, c2 \in Codes,
        a1 \in 0..MaxAttemptsDefault, a2 \in 0..MaxAttemptsDefault}

InitSweep ==
    /\ now = 0
    /\ store \in LeftPairs
    /\ nextId = 3
    /\ mismatches = [i \in 1..(MaxIssues + 1) |->
                        IF \E r \in store : r.id = i
                        THEN (CHOOSE r \in store : r.id = i).attempts ELSE 0]
    /\ calls = [c \in Callers |-> IdleCall]
    /\ nCalls = 0
    /\ reaper = [pc |-> "wait", expired |-> {}, released |-> FALSE]
    /\ tickPending = FALSE
    /\ requests = [p \in {} |-> <<>>]
    /\ admitted = [p \in Phones |-> <<>>]
    /\ reqCount = 0
    /\ rejected = [p \in Phones |-> 0]
    /\ mw = [c \in Callers |-> IdleMw]
    /\ callbacks = <<>>

NextSweep ==
    \/ Tick
    \/ ReaperQuery
    \/ ReaperDelete
    \/ TTLExpire

SpecSweep == InitSweep /\ [][NextSweep]_vars

\* clients of the repository: each creates a record and updates it, for the
\* same phone or for different ones, on a collection that may hold a record
\* already.  The wall clock never shows the zero time (0 in a record)
UpdateCodes == Codes \cup {<<"6", "5", "4", "3", "2", "1">>}

NextRepo ==
    \/ \E c \in Callers, p \in Phones, code \in Codes : RepoCreate(c, p, code)
    \/ \E c \in Callers, code \in UpdateCodes, attempts \in 0..MaxAttemptsDefault :
            RepoUpdate(c, code, attempts)
    \/ RepoTick

InitRepo ==
    /\ now = 1
    /\ \E left \in {{}} \cup {{r} : r \in LeftRecords} :
         /\ store = left
         /\ nextId = Cardinality(left) + 1
    /\ mismatches = [i \in 1..(MaxIssues + 1) |-> 0]
    /\ calls = [c \in Callers |-> IdleCall]
    /\ nCalls = 0
    /\ reaper = [pc |-> "wait", expired |-> {}, released |-> FALSE]
    /\ tickPending = FALSE
    /\ requests = [p \in {} |-> <<>>]
    /\ admitted = [p \in Phones |-> <<>>]
    /\ reqCount = 0
    /\ rejected = [p \in Phones |-> 0]
    /\ mw = [c \in Callers |-> IdleMw]
    /\ callbacks = <<>>

SpecRepo == InitRepo /\ [][NextRepo]_vars

\* the reaper of a service whose owner lets go of it at some moment
NextRelease ==
    \/ Tick
    \/ ReaperQuery
    \/ ReaperDelete
    \/ TTLExpire
    \/ Release

SpecRelease == InitSweep /\ [][NextRelease]_vars

\* SendOTP calls, the clock and a reaper whose store operations succeed
NextReaper ==
    \/ \E c \in Callers, p \in ScenarioPhones : StartSendOTP(c, p)
    \/ \E c \in Callers : SendFind(c)
    \/ \E c \in Callers : SendCooldown(c)
    \/ \E c \in Callers : SendCreate(c)
    \/ \E c \in Callers : SendDispatch(c)
    \/ \E c \in Callers : SendRollback(c)
    \/ ReaperQueryOn({TRUE})
    \/ ReaperDeleteOn({TRUE})
    \/ TTLExpire
    \/ Tick

\* a handler that was started runs to its return
HandlerRuns(c) ==
    /\ WF_vars(SendFind(c))
    /\ WF_vars(SendCooldown(c))
    /\ WF_vars(SendCreate(c))
    /\ WF_vars(SendDispatch(c))
    /\ WF_vars(SendRollback(c))

\* time passes, the ticker's goroutine receives its ticks and finishes its sweeps
ReaperRuns ==
    /\ WF_vars(Tick)
    /\ WF_vars(ReaperQueryOn({TRUE}))
    /\ WF_vars(ReaperDeleteOn({TRUE}))

SpecReaper ==
    /\ Init
    /\ [][NextReaper]_vars
    /\ ReaperRuns
    /\ \A c \in Callers : HandlerRuns(c)

\* the service starts on an empty collection
InitRoute == Init /\ store = {}

SpecRoute == InitRoute /\ [][NextRoute]_vars

\* ------------------------------------------------------------------ claims
\* the handler of goroutine c takes a step
Steps(c) == calls'[c] # calls[c]

RecordsOf(s, p) == {r \in s : r.phone = p}

HasId(s, id) == \E r \in s : r.id = id

\* C1: in every reachable state the store holds at most one OTP record per
\* phone, whatever the interleaving of SendOTP, VerifyOTP and reaper steps.
C1_OnePerPhone == \A p \in Phones : Cardinality(RecordsOf(store, p)) <= 1

\* one SendOTP has created the phone's record while a concurrent SendOTP for
\* the same phone, which saw no record, is about to create its own
C1_Witness ==
    \E c, d \in Callers :
        /\ calls[c].pc = "dispatch"
        /\ calls[d].pc = "create"
        /\ calls[d].stored = NoRec
        /\ calls[c].phone = calls[d].phone
        /\ calls[c].otpRecord \in store

\* C2: a VerifyOTP that returns VERIFIED has removed the record it accepted,
\* so that a later VerifyOTP finds none and the code is accepted once.
C2_AcceptedOnce ==
    [][\A c \in Callers :
          (calls[c].pc = "vcompare" /\ calls'[c].resp.kind = "verified")
              => ~HasId(store', calls[c].stored.id)]_vars

\* C3: a VerifyOTP that reads a record on which maxAttempts wrong codes have
\* been tried finds it at the attempt ceiling and, the record not being
\* expired, returns "max attempts" without incrementing.
C3_CeilingAfterWrongCodes ==
    [][\A c \in Callers :
          /\ (calls[c].pc = "vfind" /\ calls'[c].pc = "vcheck"
                 /\ mismatches[calls'[c].stored.id] >= 3)
                => calls'[c].stored.attempts >= calls'[c].stored.maxAttempts
          /\ (calls[c].pc = "vcheck" /\ Steps(c)
                 /\ calls[c].stored.attempts >= calls[c].stored.maxAttempts
                 /\ ~(now > calls[c].stored.expiresAt))
                => (calls'[c].resp.kind = "max_attempts" /\ store' = store)]_vars

\* C4: every stored record has attempts <= maxAttempts.
C4_AttemptsBounded == \A r \in store : r.attempts <= r.maxAttempts

\* C5: VerifyOTP never returns VERIFIED for a record that had already expired
\* when the call looked it up.
C5_NoVerifyAfterExpiry ==
    \A c \in Callers : calls[c].resp.kind = "verified" => ~calls[c].staleAtLookup

\* a VerifyOTP has found an expired record that nobody had reaped and has
\* rejected it
C5_Witness ==
    \E c \in Callers : calls[c].resp.kind = "expired" /\ calls[c].staleAtLookup

\* C6: a SendOTP that found a record with more than 2 minutes left returns
\* "already sent" with that record's expiresAt and no code, and its step
\* leaves the store as it was (it ends there: nothing is dispatched).
C6_CooldownLeavesAll ==
    [][\A c \in Callers :
          (calls[c].pc = "cooldown" /\ Steps(c)
             /\ calls[c].stored.expiresAt - now > 2 * Minute)
              => /\ calls'[c].pc = "done"
                 /\ calls'[c].resp = [kind |-> "already_sent", otp |-> NoCode,
                                      expiresAt |-> calls[c].stored.expiresAt]
                 /\ calls'[c].sentOTP = NoCode
                 /\ store' = store]_vars

\* a SendOTP has answered "already sent" and the record it found is still
\* in the store, unchanged
C6_Witness ==
    \E c \in Callers :
        /\ calls[c].resp.kind = "already_sent"
        /\ \E r \in store : /\ r.phone = calls[c].phone
                             /\ r.expiresAt = calls[c].resp.expiresAt
                             /\ r.expiresAt - now > 2 * Minute

\* C7: when the dispatch fails, SendOTP returns the transport failure and
\* the record it created is no longer in the store.
C7_FailedDispatchLeavesNoRecord ==
    [][\A c \in Callers :
          (calls[c].pc = "rollback" /\ Steps(c))
              => /\ calls'[c].resp.kind = "service_unavailable"
                 /\ ~HasId(store', calls[c].otpRecord.id)]_vars

C9_WrongCodeCountsOnce ==
    [][\A c \in Callers :
          /\ (calls[c].pc = "vcheck" /\ Steps(c)
                 /\ calls[c].stored \in store
                 /\ ~(now > calls[c].stored.expiresAt)
                 /\ calls[c].stored.attempts < calls[c].stored.maxAttempts
                 /\ calls[c].stored.code # calls[c].reqOTP)
                => \E r \in store' :
                      /\ r.id = calls[c].stored.id
                      /\ r.attempts = calls[c].stored.attempts + 1
                      /\ r.code = calls[c].stored.code
                      /\ r.expiresAt = calls[c].stored.expiresAt
          /\ (calls[c].pc = "vcompare" /\ Steps(c)
                 /\ calls[c].stored.code # calls[c].reqOTP)
                => (calls'[c].resp.kind = "invalid" /\ store' = store)]_vars

\* the admitted requests of phone p whose time lies in the 60 seconds that
\* end at second t
AdmittedInWindow(p, t) ==
    {i \in DOMAIN admitted[p] : admitted[p][i] > t - 60 /\ admitted[p][i] <= t}

ReachedServiceIn(p, t, d) ==
    {i \in DOMAIN admitted[p] : admitted[p][i] > t - d /\ admitted[p][i] <= t}

\* C11: of the send-otp requests made for one phone within 10 seconds at most
\* 5 reach SendOTP: the 6th is turned away with the rate-limit outcome.
C11_SixthTurnedAway ==
    \A p \in Phones : \A t \in 0..MaxNow :
        Cardinality(ReachedServiceIn(p, Unix(t), 10)) <= 5

C14_ReplyHasNoCode ==
    \A c \in Callers :
        calls[c].pc = "replied"
            => /\ calls[c].resp.otp = NoCode
               /\ calls[c].resp.otp \notin Codes
               /\ calls[c].resp.kind \in {"success", "already_sent",
                                          "internal_error", "service_unavailable"}

\* the endpoint has answered a SendOTP that succeeded and dispatched a code
C14_Witness ==
    \E c \in Callers :
        /\ calls[c].pc = "replied"
        /\ calls[c].resp.kind = "success"
        /\ calls[c].sentOTP \in Codes
        /\ \E r \in store : r.code = calls[c].sentOTP

\* a string of exactly six characters, each one of '0'..'9'
SixDigits(x) ==
    /\ Len(x) = 6
    /\ \A i \in 1..Len(x) : x[i] \in {"0", "1", "2", "3", "4", "5", "6", "7", "8", "9"}

\* C15: every generated code, wherever it is held (the otp local, the record
\* built and the record stored, the code handed to the transport, the code
\* SendOTP returns), is exactly six characters long, each a digit '0'..'9'.
C15_CodesAreSixDigits ==
    /\ \A r \in store : SixDigits(r.code)
    /\ \A c \in Callers :
          /\ calls[c].otp # NoCode => SixDigits(calls[c].otp)
          /\ calls[c].otpRecord # NoRec => SixDigits(calls[c].otpRecord.code)
          /\ calls[c].sentOTP # NoCode => SixDigits(calls[c].sentOTP)
          /\ calls[c].resp.otp # NoCode => SixDigits(calls[c].resp.otp)

\* a code that mixes digits was generated, stored and dispatched
C15_Witness ==
    \E c \in Callers :
        /\ calls[c].resp.kind = "success"
        /\ calls[c].sentOTP = <<"9", "0", "0", "9", "0", "9">>
        /\ calls[c].resp.otp = calls[c].sentOTP
        /\ \E r \in store : r.code = calls[c].sentOTP

\* C16: in every reachable state the status of every stored callback
\* request is one of requested, in_progress, completed, cancelled.
C16_StatusOneOfFour ==
    \A i \in 1..Len(callbacks) :
        callbacks[i].status \in {"requested", "in_progress", "completed", "cancelled"}

\* C17: a VerifyOTP whose store operation fails returns a storage failure.
\* The lookup has failed when the call gets no record although the phone has
\* one in the store; IncrementAttempts has failed when the call goes past the
\* expiry and ceiling tests and the phone's record is left as it was.
C17_StoreFailureSurfaces ==
    [][\A c \in Callers :
          /\ (calls[c].pc = "vfind" /\ Steps(c)
                 /\ RecordsOf(store, calls[c].phone) # {}
                 /\ calls'[c].pc = "done")
                => calls'[c].resp.kind = "storage_failure"
          /\ (calls[c].pc = "vcheck" /\ Steps(c)
                 /\ ~(now > calls[c].stored.expiresAt)
                 /\ calls[c].stored.attempts < calls[c].stored.maxAttempts
                 /\ RecordsOf(store, calls[c].phone) # {}
                 /\ store' = store)
                => (calls'[c].pc = "done" /\ calls'[c].resp.kind = "storage_failure")]_vars

\* C18: with the ticker's goroutine scheduled fairly and the reaper's store
\* operations succeeding, a record whose expiresAt has passed is eventually
\* out of the store, whether or not any call is made for its phone.
C18_ExpiredEventuallyRemoved ==
    \A id \in 1..(MaxIssues + 1) :
        (\E r \in store : r.id = id /\ r.expiresAt < now) ~> ~HasId(store, id)

\* a record a SendOTP of this run created has expired with no call running
\* and is still stored; the next sweep has it in its list
C18_Witness ==
    /\ \A c \in Callers : Free(calls[c])
    /\ reaper.pc = "sweep"
    /\ \E r \in store :
          /\ r.id > 1
          /\ r.expiresAt < now
          /\ r.phone \in reaper.expired

\* C19: a VerifyOTP that finds its record expired (now > expiresAt), with
\* the right code or a wrong one, returns the "expired" rejection, leaves no
\* record for the phone in the store and raises no record's attempts.
C19_ExpiredVerifyDeletes ==
    [][\A c \in Callers :
          (calls[c].pc = "vcheck" /\ Steps(c) /\ now > calls[c].stored.expiresAt)
              => /\ calls'[c].resp.kind = "expired"
                 /\ RecordsOf(store', calls[c].phone) = {}
                 /\ \A r \in store' : \E q \in store : q.id = r.id /\ q.attempts = r.attempts]_vars

\* C20: of the VerifyOTP calls that run concurrently with the right code for
\* the same record, at most one returns VERIFIED: when one of them returns
\* VERIFIED, no other is past its lookup of that record and at the comparison
\* with the right code (a call there has VERIFIED as its only return).
C20_OneVerifiedAmongConcurrent ==
    [][\A c, d \in Callers :
          (c # d /\ calls[c].pc = "vcompare" /\ calls'[c].resp.kind = "verified")
              => ~(/\ calls[d].pc = "vcompare"
                   /\ calls[d].stored.id = calls[c].stored.id
                   /\ calls[d].stored.code = calls[d].reqOTP)]_vars

\* C21: at most maxAttempts (3) VerifyOTP calls get as far as comparing a
\* submitted code with a record's code: a call that compares a wrong code
\* with its record does so when fewer than 3 such comparisons have been made
\* on that record (wrong-code comparisons are some of the comparisons).
C21_ComparisonsBounded ==
    [][\A c \in Callers :
          (calls[c].pc = "vcompare" /\ Steps(c)
             /\ calls[c].stored.code # calls[c].reqOTP)
              => mismatches[calls[c].stored.id] < 3]_vars

\* C22: once a resend has created the replacement record, no VerifyOTP that
\* submits the superseded code returns VERIFIED: when a call returns
\* VERIFIED, no concurrent SendOTP that found the record the call read has
\* already stored, in its place, a record with another code.
C22_SupersededCodeRejected ==
    [][\A c, d \in Callers :
          (calls[c].pc = "vcompare" /\ calls'[c].resp.kind = "verified")
              => ~(/\ calls[d].pc = "dispatch"
                   /\ calls[d].stored.id = calls[c].stored.id
                   /\ calls[d].otpRecord \in store
                   /\ calls[d].otpRecord.phone = calls[c].phone
                   /\ calls[d].otpRecord.code # calls[c].reqOTP)]_vars

\* C23: a VerifyOTP increments or deletes only the record it read at its
\* lookup: its steps after the lookup leave every other stored record, a
\* record a concurrent SendOTP created for the phone since then included,
\* as it was.
C23_VerifyTouchesOnlyItsRecord ==
    [][\A c \in Callers :
          (calls[c].pc \in {"vcheck", "vcompare"} /\ Steps(c))
              => \A r \in store : r.id # calls[c].stored.id => r \in store']_vars

\* C24: a sweep of the reaper deletes only records with expiresAt < now:
\* every record a step of the sweep removes from the store has expired.
C24_SweepDeletesOnlyExpired ==
    [][(reaper.pc = "sweep" /\ reaper' # reaper)
          => \A r \in store \ store' : r.expiresAt < now]_vars

\* C25: the clean-up after a failed dispatch deletes only the record that
\* same SendOTP call created: whatever its step removes from the store is
\* that record, never one a concurrent SendOTP created for the phone.
C25_RollbackDeletesOwnRecord ==
    [][\A c \in Callers :
          (calls[c].pc = "rollback" /\ Steps(c))
              => \A r \in store \ store' : r.id = calls[c].otpRecord.id]_vars

\* the timestamps of a slice that lie in the 60 seconds ending at second t
InWindow(timestamps, t) == SelectSeq(timestamps, LAMBDA ts : ts > t - 60 /\ ts <= t)

\* C26: the throttle's check-and-record is atomic under concurrent requests
\* for one phone: no 60-second window holds more than 5 admitted requests,
\* and no recorded timestamp is lost (each admitted request still in the
\* current window is in the phone's slice of the map).
C26_ThrottleAtomic ==
    \A p \in Phones :
        /\ \A t \in 0..MaxNow : Len(InWindow(admitted[p], Unix(t))) <= 5
        /\ Len(InWindow(admitted[p], Unix(now)))
              <= Len(InWindow(MapGet(requests, p), Unix(now)))

\* C27: VerifyOTP tests the expiry before the attempt ceiling and the
\* ceiling before it increments or compares: on a record both expired and
\* exhausted it returns "expired" and the phone's record is deleted; on an
\* exhausted record that has not expired it returns "max attempts" and the
\* store is left as it was.
C27_ExpiryBeforeCeiling ==
    [][\A c \in Callers :
          /\ (calls[c].pc = "vcheck" /\ Steps(c)
                 /\ now > calls[c].stored.expiresAt
                 /\ calls[c].stored.attempts >= calls[c].stored.maxAttempts)
                => /\ calls'[c].resp.kind = "expired"
                   /\ RecordsOf(store', calls[c].phone) = {}
          /\ (calls[c].pc = "vcheck" /\ Steps(c)
                 /\ ~(now > calls[c].stored.expiresAt)
                 /\ calls[c].stored.attempts >= calls[c].stored.maxAttempts)
                => /\ calls'[c].resp.kind = "max_attempts"
                   /\ store' = store]_vars

\* C28 as stated: a VerifyOTP that runs exactly at the expiry boundary
\* (now = expiresAt) raises no record's attempts.
C28_BoundaryDoesNotIncrement ==
    [][\A c \in Callers :
          (calls[c].pc = "vcheck" /\ Steps(c) /\ now = calls[c].stored.expiresAt)
              => \A r \in store' : \E q \in store : q.id = r.id /\ q.attempts = r.attempts]_vars

\* C28, amended: the boundary belongs to the record's lifetime.  A
\* VerifyOTP that runs at now = expiresAt is not answered "expired" and
\* deletes nothing: on an exhausted record it returns "max attempts"; below
\* the ceiling it calls IncrementAttempts (the store is what that call
\* leaves, or unchanged when it fails) and goes on to compare.  Only with
\* now > expiresAt is the call answered "expired", with no increment.
C28_BoundaryIsNotExpired ==
    [][\A c \in Callers :
          /\ (calls[c].pc = "vcheck" /\ Steps(c) /\ now = calls[c].stored.expiresAt)
                => IF calls[c].stored.attempts >= calls[c].stored.maxAttempts
                   THEN calls'[c].resp.kind = "max_attempts" /\ store' = store
                   ELSE /\ calls'[c].pc = "vcompare"
                        /\ store' \in {store, IncrementAttempts(store, calls[c].phone, now)}
          /\ (calls[c].pc = "vcheck" /\ Steps(c) /\ now > calls[c].stored.expiresAt)
                => /\ calls'[c].resp.kind = "expired"
                   /\ \A r \in store' : \E q \in store : q.id = r.id /\ q.attempts = r.attempts]_vars

\* a VerifyOTP running at now = expiresAt has incremented its record and is
\* about to compare
C28_Witness ==
    \E c \in Callers :
        /\ calls[c].pc = "vcompare"
        /\ calls[c].stored.expiresAt = now
        /\ \E r \in store : /\ r.id = calls[c].stored.id
                             /\ r.attempts = calls[c].stored.attempts + 1

\* C29: a SendOTP that finds the phone's record with 2 minutes or less to
\* go (an expired record included) deletes it; the record it then creates
\* has attempts 0 and expiresAt 5 minutes after the time of issue; and once
\* that record is stored no VerifyOTP is accepted on the record it replaced.
C29_ResendReplaces ==
    [][\A c \in Callers :
          /\ (calls[c].pc = "cooldown" /\ Steps(c)
                 /\ calls[c].stored.expiresAt - now <= 2 * Minute)
                => ~HasId(store', calls[c].stored.id)
          /\ (calls[c].pc = "create" /\ calls'[c].pc = "dispatch")
                => \E r \in store' \ store :
                      /\ r.phone = calls[c].phone
                      /\ r.attempts = 0
                      /\ r.expiresAt = now + 5 * Minute
          /\ (calls[c].pc = "vcompare" /\ calls'[c].resp.kind = "verified")
                => ~\E r \in RecordsOf(store, calls[c].phone) : r.id > calls[c].stored.id]_vars

\* a record at its attempt ceiling with more than 2 minutes left
LockedOut(r) == r.attempts >= r.maxAttempts /\ r.expiresAt - now > 2 * Minute

\* C30: while the phone's record is at the ceiling with more than 2 minutes
\* left, a SendOTP that looks the phone up gets that record and returns
\* "already sent" without touching the store, a VerifyOTP that looks the
\* phone up gets that record and returns "max attempts", and no VerifyOTP is
\* accepted on a record that other calls have brought to the ceiling.
C30_LockedOutUntilResend ==
    [][\A c \in Callers :
          /\ (calls[c].pc = "find" /\ Steps(c)
                 /\ \E r \in RecordsOf(store, calls[c].phone) : LockedOut(r))
                => calls'[c].pc = "cooldown"
          /\ (calls[c].pc = "cooldown" /\ Steps(c) /\ LockedOut(calls[c].stored))
                => (calls'[c].resp.kind = "already_sent" /\ store' = store)
          /\ (calls[c].pc = "vfind" /\ Steps(c)
                 /\ \E r \in RecordsOf(store, calls[c].phone) : LockedOut(r))
                => calls'[c].pc = "vcheck"
          /\ (calls[c].pc = "vcheck" /\ Steps(c) /\ LockedOut(calls[c].stored))
                => (calls'[c].resp.kind = "max_attempts" /\ store' = store)
          /\ (calls[c].pc = "vcompare" /\ calls'[c].resp.kind = "verified")
                => ~\E r \in RecordsOf(store, calls[c].phone) :
                       /\ r.id = calls[c].stored.id
                       /\ LockedOut([r EXCEPT !.attempts = @ - 1])]_vars

\* C31: a VerifyOTP for a phone that has no record returns "not found or
\* expired" at its lookup and changes nothing: the store is left as it was
\* (nothing created, modified or deleted, for any phone) and nothing is
\* handed to the transport.
C31_MissChangesNothing ==
    [][\A c \in Callers :
          (calls[c].pc = "vfind" /\ Steps(c) /\ RecordsOf(store, calls[c].phone) = {})
              => /\ calls'[c].pc = "done"
                 /\ calls'[c].resp = [kind |-> "not_found", otp |-> NoCode, expiresAt |-> 0]
                 /\ calls'[c].sentOTP = NoCode
                 /\ store' = store
                 /\ nextId' = nextId]_vars

\* a VerifyOTP has been answered "not found" for a phone without a record,
\* in a store no SendOTP has written to
C31_Witness ==
    \E c \in Callers :
        /\ calls[c].resp.kind = "not_found"
        /\ calls[c].phone \in ScenarioPhones
        /\ RecordsOf(store, calls[c].phone) = {}
        /\ nextId = 1

\* C32: within a sweep a delete that fails does not end the sweep.  Every
\* step of the loop takes one phone off the sweep's list, whether its delete
\* removed the phone's record or failed and left the store as it was; the
\* other phones stay on the list, and the sweep is over only when the list
\* is empty, so each phone the query returned gets its delete.
C32_SweepGoesOn ==
    [][(reaper.pc = "sweep" /\ reaper' # reaper)
          => /\ \E p \in reaper.expired :
                    /\ reaper'.expired = reaper.expired \ {p}
                    /\ store' \in {store, store \ RecordsOf(store, p)}
             /\ reaper'.pc = (IF reaper'.expired = {} THEN "wait" ELSE "sweep")]_vars

\* in a sweep over two phones the delete of one has failed (its expired
\* record is still stored and the phone is off the list) and the sweep goes
\* on with the other
C32_Witness ==
    /\ reaper.pc = "sweep"
    /\ \E p, q \in Phones :
          /\ p # q
          /\ p \notin reaper.expired
          /\ \E r \in RecordsOf(store, p) : r.expiresAt < now
          /\ q \in reaper.expired
          /\ \E r \in RecordsOf(store, q) : r.expiresAt < now

\* C33: a SendOTP call makes at most one Create and at most one dispatch
\* and retries neither.  Its lookup and its cooldown step create and
\* dispatch nothing; its create step is taken once, adds at most one record
\* and either ends the call (generation or Create failed: nothing
\* dispatched) or leads to the dispatch; the dispatch step is taken once,
\* with nothing dispatched before, hands the generated code over and leads
\* to the return or to the clean-up, which neither creates nor dispatches.
\* A call that returns "already sent" or a failed Create has dispatched
\* nothing; one whose Create succeeded has dispatched exactly once.
C33_OneCreateOneDispatch ==
    [][\A c \in Callers :
          /\ (calls[c].pc \in {"find", "cooldown"} /\ Steps(c))
                => /\ store' \subseteq store
                   /\ nextId' = nextId
                   /\ calls'[c].sentOTP = NoCode
                   /\ calls'[c].resp.kind \in {"none", "already_sent"}
          /\ (calls[c].pc = "create" /\ Steps(c))
                => /\ calls'[c].sentOTP = NoCode
                   /\ \/ /\ calls'[c].pc = "dispatch"
                         /\ store' \ store = {calls'[c].otpRecord}
                         /\ store \subseteq store'
                      \/ /\ calls'[c].pc = "done"
                         /\ calls'[c].resp.kind = "internal_error"
                         /\ store' = store
          /\ (calls[c].pc = "dispatch" /\ Steps(c))
                => /\ calls[c].sentOTP = NoCode
                   /\ calls'[c].sentOTP = calls[c].otp
                   /\ calls[c].otp # NoCode
                   /\ store' = store
                   /\ \/ calls'[c].pc = "rollback"
                      \/ calls'[c].pc = "done" /\ calls'[c].resp.kind = "success"
          /\ (calls[c].pc = "rollback" /\ Steps(c))
                => /\ store' \subseteq store
                   /\ calls'[c].sentOTP = calls[c].sentOTP
                   /\ calls'[c].pc = "done"
                   /\ calls'[c].resp.kind = "service_unavailable"]_vars

\* a SendOTP whose Create succeeded and whose only dispatch failed has
\* returned the transport failure
C33_Witness ==
    \E c \in Callers :
        /\ calls[c].pc = "done"
        /\ calls[c].resp.kind = "service_unavailable"
        /\ calls[c].sentOTP \in Codes


\* C34: a step of a SendOTP, a VerifyOTP or a throttle check for one phone
\* leaves the OTP record and the throttle timestamps of every other phone as
\* they were: the record of a phone changes only in a step of a call for that
\* phone, and its timestamp list only in a map write of a check for that
\* phone, under every interleaving of calls for different phones.
C34_OtherPhonesUntouched ==
    [][\A q \in Phones :
          /\ RecordsOf(store', q) # RecordsOf(store, q)
                => \E c \in Callers : Steps(c) /\ calls[c].phone = q
          /\ MapGet(requests', q) # MapGet(requests, q)
                => \E c \in Callers :
                       /\ mw[c].phone = q
                       /\ mw[c].pc \in {"store", "write"}
                       /\ mw'[c].pc \in {"idle", "append"}]_vars

\* a string that is '+' followed only by digits, at least 10 characters long
WellFormedPhone(x) ==
    /\ Len(x) >= 10
    /\ x[1] = "+"
    /\ \A i \in 2..Len(x) : x[i] \in {"0", "1", "2", "3", "4", "5", "6", "7", "8", "9"}

\* the send-otp bodies whose phone is not well formed
MalformedPhones == {phone \in PhoneInputs : ~WellFormedPhone(phone)}

\* the verify-otp bodies whose phone is not well formed or whose code is not
\* six digits
MalformedVerifies ==
    {req \in VerifyInputs : ~(WellFormedPhone(req.phone) /\ SixDigits(req.otp))}

\* the request of goroutine c was answered with a ValidationError and never
\* reached SendOTP or VerifyOTP: no call was started, the collection is as
\* it was and nothing was dispatched
TurnedAway(c) ==
    /\ calls'[c].pc = "replied"
    /\ calls'[c].resp.kind = "validation_error"
    /\ calls'[c].sentOTP = NoCode
    /\ nCalls' = nCalls
    /\ store' = store
    /\ nextId' = nextId

\* C35: a send-otp or verify-otp request whose phone is not '+' followed only
\* by digits with length at least 10, and a verify-otp request whose code is
\* not exactly 6 digits, is answered with a ValidationError before SendOTP or
\* VerifyOTP is called: no store operation and no dispatch happens for it.
C35_MalformedRejected ==
    [][\A c \in Callers :
          (Steps(c) /\ ~TurnedAway(c))
              => /\ \A phone \in MalformedPhones : ~EndpointSendOTP(c, phone)
                 /\ \A req \in MalformedVerifies :
                        ~EndpointVerifyOTP(c, req.phone, req.otp)]_vars

\* a request was turned away while the phone's record is stored, and another
\* request, well formed, is inside VerifyOTP
C35_Witness ==
    \E c, d \in Callers :
        /\ calls[c].pc = "replied"
        /\ calls[c].resp.kind = "validation_error"
        /\ calls[d].pc = "vcheck"
        /\ store # {}

\* C36: a request the throttle turns away is not recorded: the step that
\* rejects a request for a phone leaves the phone's timestamp list as it was
\* apart from entries pruned for their age, admits nothing, and happens only
\* while 5 admitted requests lie in the trailing 60 seconds, so that the
\* phone is admitted again as soon as fewer remain.
C36_RejectionNotRecorded ==
    [][\A p \in Phones :
          rejected'[p] # rejected[p]
              => /\ \E t \in 0..now :
                        MapGet(requests', p)
                            = KeepRecent(MapGet(requests, p), Unix(t) - RateWindow)
                 /\ admitted' = admitted
                 /\ Cardinality(AdmittedInWindow(p, Unix(now))) >= RateLimit]_vars

\* the timestamps of a slice that are at most 60 seconds old at second t
NotOlderThanWindow(timestamps, t) == SelectSeq(timestamps, LAMBDA ts : ts >= t - 60)

\* C37: the throttle discards only timestamps older than 60 seconds: a
\* request for a phone keeps every recorded timestamp that is at most 60
\* seconds old, one exactly 60 seconds old included, and is turned away when
\* 5 of them are kept.
C37_SixtySecondsOldCounts ==
    [][\A p \in Phones :
          (MapGet(requests', p) # MapGet(requests, p) \/ rejected'[p] # rejected[p])
              => LET kept == NotOlderThanWindow(MapGet(requests, p), Unix(now))
                 IN  IF Len(kept) >= RateLimit
                     THEN /\ rejected'[p] = rejected[p] + 1
                          /\ MapGet(requests', p) = kept
                     ELSE MapGet(requests', p) = Append(kept, Unix(now))]_vars

\* C38: the reaper starts with the service and can be stopped: once the
\* service has been stopped the reaper takes no tick, starts no sweep and
\* deletes no record.
C38_StoppedReaperRests ==
    [][(reaper.released /\ reaper.pc = "wait")
          => /\ reaper'.pc = "wait"
             /\ tickPending => tickPending']_vars

\* C39: the store round trip.  The struct a successful Create leaves with its
\* caller has a non-zero ID, createdAt and updatedAt (0 is the zero value),
\* and FindByPhone on its phone then returns a record with the same phone and
\* code; after an Update of that record with a changed code and attempts,
\* FindByPhone returns the updated code and attempts.
C39_StoreRoundTrip ==
    [][\A c \in Callers :
          /\ (calls[c].pc = "idle" /\ calls'[c].pc = "created")
                => LET otp == calls'[c].otpRecord
                       found == FindByPhone(store', otp.phone)
                   IN  /\ otp.id # 0
                       /\ otp.createdAt # 0
                       /\ otp.updatedAt # 0
                       /\ found # NoRec
                       /\ found.phone = otp.phone
                       /\ found.code = otp.code
          /\ (calls[c].pc = "created" /\ calls'[c].pc = "updated")
                => LET otp == calls'[c].otpRecord
                       found == FindByPhone(store', otp.phone)
                   IN  /\ found # NoRec
                       /\ found.code = otp.code
                       /\ found.attempts = otp.attempts]_vars

\* a client has created a record and updated it with another code and
\* another number of attempts, some time after it created it, while the
\* collection holds a record of another phone as well
C39_Witness ==
    \E c \in Callers :
        /\ calls[c].pc = "updated"
        /\ calls[c].otpRecord.code # calls[c].stored.code
        /\ calls[c].otpRecord.attempts # calls[c].stored.attempts
        /\ calls[c].otpRecord.updatedAt > calls[c].stored.createdAt
        /\ FindByPhone(store, calls[c].phone).code = calls[c].otpRecord.code
        /\ Cardinality(store) = 2

====
